---- MODULE Spec2Model ----
(***************************************************************************)
(* A model of sample.py: the candlestick pattern scan                      *)
(* (get_candlestick_patterns), the spreadsheet export                      *)
(* (save_patterns_to_excel) and the interactive loop of __main__.          *)
(*                                                                         *)
(* Prices are held in thousandths (150.005 is 150005).  Strings that the   *)
(* program compares or sorts character by character (the Date column) are  *)
(* sequences of one-character strings; the other strings are atoms.        *)
(* The market-data provider and TA-Lib are external: what they return is   *)
(* chosen nondeterministically from the sets below.                        *)
(***************************************************************************)
EXTENDS Integers, Sequences, FiniteSets, TLC

\* The longest frame the provider returns in the model.
MaxBars == 3

\* ------------------------------------------------------------------ cells

\* A cell of the downloaded frame: a number, NaN, or a non-numeric string.
Num(x) == [t |-> "num", v |-> x]
NaN == [t |-> "nan", v |-> 0]
Junk == [t |-> "str", v |-> 0]

\* pd.to_numeric(errors='coerce') on one cell.
ToNumericCell(c) == IF c.t = "num" THEN c ELSE NaN

IsNa(c) == c.t = "nan"

\* ------------------------------------------------------------------ dates

DigitChar == <<"0", "1", "2", "3", "4", "5", "6", "7", "8", "9">>

\* The code point of a character of a formatted date.
Ord(c) ==
    CASE c = "-" -> 45
      [] c = "0" -> 48 [] c = "1" -> 49 [] c = "2" -> 50 [] c = "3" -> 51
      [] c = "4" -> 52 [] c = "5" -> 53 [] c = "6" -> 54 [] c = "7" -> 55
      [] c = "8" -> 56 [] c = "9" -> 57

\* n as w decimal digits, zero padded.
RECURSIVE Pad(_, _)
Pad(n, w) == IF w = 0 THEN <<>> ELSE Append(Pad(n \div 10, w - 1), DigitChar[(n % 10) + 1])

\* idx.strftime('%Y-%m-%d')
Strftime(ts) == Pad(ts.year, 4) \o <<"-">> \o Pad(ts.month, 2) \o <<"-">> \o Pad(ts.day, 2)

\* Python's str.__lt__: lexicographic by code point, a proper prefix is smaller.
RECURSIVE StrLess(_, _)
StrLess(a, b) ==
    IF b = <<>> THEN FALSE
    ELSE IF a = <<>> THEN TRUE
    ELSE IF Ord(Head(a)) # Ord(Head(b)) THEN Ord(Head(a)) < Ord(Head(b))
    ELSE StrLess(Tail(a), Tail(b))

\* The trading days the provider's daily index is drawn from, in order.
Calendar ==
    << [year |-> 2023, month |-> 12, day |-> 29],
       [year |-> 2024, month |-> 3, day |-> 5],
       [year |-> 2024, month |-> 3, day |-> 10],
       [year |-> 2024, month |-> 10, day |-> 2],
       [year |-> 2025, month |-> 1, day |-> 2] >>

\* ------------------------------------------------------------------ rounding

\* Where the binary64 nearest to the decimal c/1000 lies: -1 below it, 0 on
\* it, 1 above it (150.005 is stored as 150.00499999999999545...).
Binary64Side(c) ==
    CASE c = 150005 -> -1
      [] c = 150015 -> -1
      [] c = 99996 -> -1
      [] c = 125 -> 0

\* A mutant: rounds a trailing 5 up, as decimal half-up rounding would.
RoundHalfUp(c) == ((c + 5) \div 10) * 10

\* round(closing_price, 2) on the stored binary64, in thousandths: the last
\* digit decides, and on a 5 the side of the stored value does (ties to even
\* only when the value is exactly representable).
Round2(c) ==
    LET q == c \div 10
        r == c % 10
        up == \/ r > 5
              \/ r = 5 /\ Binary64Side(c) > 0
              \/ r = 5 /\ Binary64Side(c) = 0 /\ q % 2 = 1
    IN  IF up THEN (q + 1) * 10 ELSE q * 10

\* ------------------------------------------------------------------ frames

\* yfinance's column labels, flat or as the (Price, Ticker) MultiIndex.
FlatColumns == <<"Close", "High", "Low", "Open", "Volume">>
MultiColumns ==
    << <<"Close", "AAPL">>, <<"High", "AAPL">>, <<"Low", "AAPL">>,
       <<"Open", "AAPL">>, <<"Volume", "AAPL">> >>
NoVolumeColumns == <<"Close", "High", "Low", "Open">>

\* str.upper() on a column label.
Upper(s) ==
    CASE s = "Close" -> "CLOSE" [] s = "High" -> "HIGH" [] s = "Low" -> "LOW"
      [] s = "Open" -> "OPEN" [] s = "Volume" -> "VOLUME" [] OTHER -> s

\* data.columns.get_level_values(0), then every label upper-cased.
StandardizeColumns(d) ==
    LET flat == IF d.multi THEN [i \in DOMAIN d.columns |-> d.columns[i][1]] ELSE d.columns
    IN  [i \in DOMAIN flat |-> Upper(flat[i])]

required_columns == <<"OPEN", "HIGH", "LOW", "CLOSE", "VOLUME">>

Range(s) == {s[i] : i \in DOMAIN s}

\* The position of column col.
ColPos(cols, col) == CHOOSE i \in DOMAIN cols : cols[i] = col

\* The four price columns and the volume column coerced to numbers.
ToNumericColumns(cols, rows) ==
    [i \in DOMAIN rows |->
        [j \in DOMAIN cols |->
            IF cols[j] \in Range(required_columns)
            THEN ToNumericCell(rows[i][j]) ELSE rows[i][j]]]

\* A mutant: drops the rows with a NaN in any OHLCV column, volume included.
DropnaSubsetWithVolume == {"OPEN", "HIGH", "LOW", "CLOSE", "VOLUME"}

\* data.dropna(subset=[...]): the columns whose NaN discards the row.
DropnaSubset == {"OPEN", "HIGH", "LOW", "CLOSE"}

\* The positions of the rows dropna keeps, in order.
RECURSIVE KeptFrom(_, _, _)
KeptFrom(cols, rows, i) ==
    IF i > Len(rows) THEN <<>>
    ELSE IF \E c \in DropnaSubset : IsNa(rows[i][ColPos(cols, c)])
         THEN KeptFrom(cols, rows, i + 1)
         ELSE <<i>> \o KeptFrom(cols, rows, i + 1)

\* The frame after to_numeric and dropna: its index and its rows.
Cleaned(cols, d) ==
    LET num == ToNumericColumns(cols, d.rows)
        kept == KeptFrom(cols, num, 1)
    IN  [index |-> [k \in DOMAIN kept |-> d.index[kept[k]]],
         rows |-> [k \in DOMAIN kept |-> num[kept[k]]]]

\* A mutant: a single bar is taken as enough.
NotEnoughBelowOne(n) == n < 1

\* data.shape[0] < 2
NotEnough(n) == n < 2

\* ------------------------------------------------------------------ tables

\* The absent result.
None == [isNone |-> TRUE, columns |-> <<>>, rows |-> <<>>]

DataFrame(cols, rows) == [isNone |-> FALSE, columns |-> cols, rows |-> rows]

\* The keys of a detected pattern's dict, in insertion order.
EventColumns == <<"Date", "Pattern", "Type", "Closing Price", "Recommendation", "Value">>

\* A mutant: the rows are left in the order they were appended.
Unsorted(rows) == rows

\* Insert row r into the rows s, ordered by Date, after the rows of the same Date.
RECURSIVE InsertByDate(_, _)
InsertByDate(s, r) ==
    IF s = <<>> THEN <<r>>
    ELSE IF StrLess(r["Date"], Head(s)["Date"]) THEN <<r>> \o s
    ELSE <<Head(s)>> \o InsertByDate(Tail(s), r)

RECURSIVE InsertionSort(_)
InsertionSort(rows) ==
    IF rows = <<>> THEN <<>>
    ELSE InsertByDate(InsertionSort(SubSeq(rows, 1, Len(rows) - 1)), rows[Len(rows)])

\* patterns_df.sort_values(by="Date"): the Date strings ascending.  The
\* default sort kind orders arrays of up to 16 elements by insertion, which
\* keeps equal dates in their order of appending.
SortValues(rows) == InsertionSort(rows)

\* patterns_df.drop_duplicates(subset=['Date', 'Pattern'], keep='first')
RECURSIVE DropDuplicates(_)
DropDuplicates(rows) ==
    IF rows = <<>> THEN <<>>
    ELSE LET l == rows[Len(rows)]
             init == SubSeq(rows, 1, Len(rows) - 1)
             earlier == \E j \in 1..Len(init) :
                          init[j]["Date"] = l["Date"] /\ init[j]["Pattern"] = l["Pattern"]
         IN  DropDuplicates(init) \o (IF earlier THEN <<>> ELSE <<l>>)

\* ------------------------------------------------------------------ the scan

candlestick_patterns ==
    << <<"CDLDOJI", "Doji">>,
       <<"CDLHAMMER", "Hammer">>,
       <<"CDLINVERTEDHAMMER", "Inverted Hammer">>,
       <<"CDLMORNINGSTAR", "Morning Star">>,
       <<"CDLEVENINGSTAR", "Evening Star">>,
       <<"CDLENGULFING", "Engulfing">>,
       <<"CDLPIERCING", "Piercing Pattern">>,
       <<"CDLDARKCLOUDCOVER", "Dark Cloud Cover">>,
       <<"CDLHARAMI", "Harami">>,
       <<"CDLHARAMICROSS", "Harami Cross">>,
       <<"CDL3WHITESOLDIERS", "Three White Soldiers">>,
       <<"CDL3BLACKCROWS", "Three Black Crows">>,
       <<"CDLDRAGONFLYDOJI", "Dragonfly Doji">>,
       <<"CDLGRAVESTONEDOJI", "Gravestone Doji">>,
       <<"CDLMARUBOZU", "Marubozu">>,
       <<"CDLSHOOTINGSTAR", "Shooting Star">>,
       <<"CDLHANGINGMAN", "Hanging Man">> >>

\* What one TA-Lib call gives on a frame of n bars: it raises, or returns n
\* codes.  All 17 names are functions of TA-Lib, so the lookup of line 74
\* finds each.  tl holds the outcome of the calls the model varies
\* (CDLHAMMER, CDLENGULFING); every other pattern function returns zeros.
PatternFunction(tl, f, n) ==
    IF f \in DOMAIN tl THEN tl[f] ELSE [raises |-> FALSE, out |-> [i \in 1..n |-> 0]]

\* A mutant: only the positive codes are kept.
RECURSIVE MatchesPositive(_, _)
MatchesPositive(out, i) ==
    IF i > Len(out) THEN <<>>
    ELSE (IF out[i] > 0 THEN <<i>> ELSE <<>>) \o MatchesPositive(out, i + 1)

\* pattern_result[pattern_result != 0]: the positions from i on, in order.
RECURSIVE Matches(_, _)
Matches(out, i) ==
    IF i > Len(out) THEN <<>>
    ELSE (IF out[i] # 0 THEN <<i>> ELSE <<>>) \o Matches(out, i + 1)

\* A mutant: the comparison is turned around.
PatternTypeInverted(val) == IF val < 0 THEN "Bullish" ELSE "Bearish"

\* "Bullish" if val > 0 else "Bearish"
PatternType(val) == IF val > 0 THEN "Bullish" ELSE "Bearish"

\* A mutant: the Bearish branch falls through to the fallback.
RecommendationNoSell(pattern_type) ==
    IF pattern_type = "Bullish" THEN "Consider Buy" ELSE "Neutral"

Recommendation(pattern_type) ==
    IF pattern_type = "Bullish" THEN "Consider Buy"
    ELSE IF pattern_type = "Bearish" THEN "Consider Sell"
    ELSE "Neutral"

\* The dict appended for the match at position i of the cleaned frame.
DetectedPattern(cols, cl, out, pattern_name, i) ==
    LET val == out[i]
        pattern_type == PatternType(val)
        closing_price == cl.rows[i][ColPos(cols, "CLOSE")].v
    IN  ("Date" :> Strftime(cl.index[i]))
        @@ ("Pattern" :> pattern_name)
        @@ ("Type" :> pattern_type)
        @@ ("Closing Price" :> Round2(closing_price))
        @@ ("Recommendation" :> Recommendation(pattern_type))
        @@ ("Value" :> val)

\* The loop over candlestick_patterns from entry k on: the dicts appended,
\* the functions called, and whether a call raised (which ends the loop).
RECURSIVE ScanFrom(_, _, _, _, _, _)
ScanFrom(cols, cl, tl, k, detected, calls) ==
    IF k > Len(candlestick_patterns)
    THEN [exc |-> FALSE, detected |-> detected, calls |-> calls]
    ELSE LET f == candlestick_patterns[k][1]
             res == PatternFunction(tl, f, Len(cl.rows))
             m == Matches(res.out, 1)
             found == [j \in DOMAIN m |->
                         DetectedPattern(cols, cl, res.out, candlestick_patterns[k][2], m[j])]
         IN  IF res.raises
             THEN [exc |-> TRUE, detected |-> detected, calls |-> Append(calls, f)]
             ELSE ScanFrom(cols, cl, tl, k + 1, detected \o found, Append(calls, f))

\* ------------------------------------------------------------------ get_candlestick_patterns

EmptyFrame == [index |-> <<>>, rows |-> <<>>]

\* What a call leaves behind: the value returned, whether an exception is in
\* flight, the message printed, and the function's locals.
Outcome(ret, exc, msg, cl, calls, detected, sorted) ==
    [ret |-> ret, exc |-> exc, msg |-> msg, cleaned |-> cl, calls |-> calls,
     detected |-> detected, sorted |-> sorted]

\* The body of the try block, on what the download gave (dl) and what the
\* TA-Lib calls give (tl).
TryBody(dl, tl) ==
    IF dl.raised
    THEN Outcome(None, TRUE, "", EmptyFrame, <<>>, <<>>, <<>>)
    ELSE IF dl.rows = <<>> \/ dl.columns = <<>>
    THEN Outcome(None, FALSE, "no_data", EmptyFrame, <<>>, <<>>, <<>>)
    ELSE LET cols == StandardizeColumns(dl) IN
    IF ~ (\A c \in Range(required_columns) : c \in Range(cols))
    THEN Outcome(None, FALSE, "missing_columns", EmptyFrame, <<>>, <<>>, <<>>)
    ELSE LET cl == Cleaned(cols, dl) IN
    IF NotEnough(Len(cl.rows))
    THEN Outcome(None, FALSE, "not_enough", cl, <<>>, <<>>, <<>>)
    ELSE LET scan == ScanFrom(cols, cl, tl, 1, <<>>, <<>>) IN
    IF scan.exc
    THEN Outcome(None, TRUE, "", cl, scan.calls, scan.detected, <<>>)
    ELSE IF scan.detected # <<>>
    THEN LET sorted == SortValues(scan.detected)
         IN  Outcome(DataFrame(EventColumns, DropDuplicates(sorted)), FALSE, "detected",
                     cl, scan.calls, scan.detected, sorted)
    ELSE Outcome(None, FALSE, "no_patterns", cl, scan.calls, <<>>, <<>>)

\* A mutant: no handler, the exception leaves the function.
ExceptHandlerMissing(b) == b

\* A mutant: the handler returns what had been detected before the failure.
ExceptHandlerPartial(b) ==
    [b EXCEPT !.exc = FALSE, !.msg = "error",
              !.ret = IF b.detected = <<>> THEN None
                      ELSE DataFrame(EventColumns, b.detected)]

\* except Exception as e: print, return None
ExceptHandler(b) == [b EXCEPT !.exc = FALSE, !.msg = "error", !.ret = None]

GetCandlestickPatterns(dl, tl) ==
    LET b == TryBody(dl, tl) IN IF b.exc THEN ExceptHandler(b) ELSE b

\* ------------------------------------------------------------------ save_patterns_to_excel

\* "".join(c for c in company_name if c.isalnum() or c == ' ').strip()
SafeCompanyName(s) ==
    CASE s = "Apple Inc." -> "Apple Inc" [] s = "AT&T" -> "ATT" [] OTHER -> s

\* "".join(c for c in ticker_symbol if c.isalnum()).strip()
SafeTickerSymbol(s) ==
    CASE s = "BRK-B" -> "BRKB" [] s = "RELIANCE.NS" -> "RELIANCENS" [] OTHER -> s

\* A mutant: the column is appended after the others.
InsertLast(df, column, value) ==
    [df EXCEPT !.columns = Append(df.columns, column),
               !.rows = [i \in DOMAIN df.rows |-> (column :> value) @@ df.rows[i]]]

\* df.insert(0, column, value)
InsertFirst(df, column, value) ==
    [df EXCEPT !.columns = <<column>> \o df.columns,
               !.rows = [i \in DOMAIN df.rows |-> (column :> value) @@ df.rows[i]]]

\* The labels of cols other than column, in order.
RECURSIVE Without(_, _)
Without(cols, column) ==
    IF cols = <<>> THEN <<>>
    ELSE (IF Head(cols) = column THEN <<>> ELSE <<Head(cols)>>) \o Without(Tail(cols), column)

\* df.drop(columns=[column])
DropColumn(df, column) ==
    [df EXCEPT !.columns = Without(df.columns, column),
               !.rows = [i \in DOMAIN df.rows |->
                           [c \in (DOMAIN df.rows[i]) \ {column} |-> df.rows[i][c]]]]

NoFile == [written |-> FALSE, name |-> <<>>, sheet |-> None]

\* The call on table df; io_ok tells whether to_excel succeeds.  Gives the
\* caller's table after the call, the file written, the message printed and
\* whether an exception is in flight.
SavePatternsToExcel(df, company_name, ticker_symbol, io_ok) ==
    IF ~ df.isNone /\ df.rows # <<>> /\ df.columns # <<>>
    THEN LET filename == <<"candlestick_patterns", SafeCompanyName(company_name),
                           SafeTickerSymbol(ticker_symbol), ".xlsx">>
             df_to_save == InsertFirst(df, "Company", company_name)
             dropped == IF "Value" \in Range(df_to_save.columns)
                        THEN DropColumn(df_to_save, "Value") ELSE df_to_save
         IN  IF io_ok
             THEN [df |-> df, exc |-> FALSE, msg |-> "saved",
                   file |-> [written |-> TRUE, name |-> filename, sheet |-> dropped]]
             ELSE [df |-> df, exc |-> FALSE, msg |-> "save_error", file |-> NoFile]
    ELSE [df |-> df, exc |-> FALSE, msg |-> "nothing_to_save", file |-> NoFile]

\* ------------------------------------------------------------------ what the environment gives

\* Rows in the order of FlatColumns: Close, High, Low, Open, Volume.
GoodRows ==
    { <<Num(150005), Num(151000), Num(99000), Num(100000), Num(1000)>>,
      <<Num(99996), Num(151000), Num(99000), Num(100000), Junk>> }
BadRows ==
    { <<Num(150005), Num(151000), Num(99000), Junk, Num(1000)>>,
      <<NaN, Num(151000), Num(99000), Num(100000), Num(1000)>> }

DownloadRaised == [raised |-> TRUE, multi |-> FALSE, columns |-> <<>>, index |-> <<>>, rows |-> <<>>]

Frame(multi, cols, rows) ==
    [raised |-> FALSE, multi |-> multi, columns |-> cols,
     index |-> [i \in DOMAIN rows |-> Calendar[i]], rows |-> rows]

\* yf.download(...): it raises, or returns a frame of 0..MaxBars daily bars.
Downloads ==
    {DownloadRaised}
    \cup {Frame(FALSE, FlatColumns, rows) :
            rows \in UNION {[1..n -> GoodRows \cup BadRows] : n \in 0..MaxBars}}
    \cup {Frame(TRUE, MultiColumns, rows) :
            rows \in UNION {[1..n -> {<<Num(150005), Num(151000), Num(99000), Num(100000), Num(1000)>>}] :
                             n \in 1..2}}
    \cup {Frame(FALSE, NoVolumeColumns, rows) :
            rows \in UNION {[1..n -> {<<Num(150005), Num(151000), Num(99000), Num(100000)>>}] :
                             n \in 1..2}}

\* What TA-Lib gives on a frame of n bars: CDLHAMMER returns 0 or 100 per
\* bar, CDLENGULFING -100, 0 or 100 per bar, or raises.
TalibOutcomes(n) ==
    { ("CDLHAMMER" :> [raises |-> FALSE, out |-> h]) @@ ("CDLENGULFING" :> e) :
        h \in [1..n -> {0, 100}],
        e \in {[raises |-> TRUE, out |-> [i \in 1..n |-> 0]]}
              \cup {[raises |-> FALSE, out |-> o] : o \in [1..n -> {-100, 0, 100}]} }

\* The number of bars the pattern functions would be called on.
BarsToScan(dl) ==
    IF dl.raised \/ dl.rows = <<>> THEN 0
    ELSE LET cols == StandardizeColumns(dl)
         IN  IF \A c \in Range(required_columns) : c \in Range(cols)
             THEN Len(Cleaned(cols, dl).rows) ELSE 0

\* input(): what is typed at the three prompts.
CompanyInputs == {"Apple Inc.", " EXIT "}
TickerInputs == {"aapl", " "}
DateInputs == {"2024-01-01", "01/01/2024"}

\* str.strip(), str.lower(), str.upper() on the inputs.
Strip(s) == CASE s = " EXIT " -> "EXIT" [] s = " " -> "" [] OTHER -> s
Lower(s) == CASE s = "EXIT" -> "exit" [] s = "Apple Inc." -> "apple inc." [] OTHER -> s
UpperInput(s) == CASE s = "aapl" -> "AAPL" [] OTHER -> s

\* Whether datetime.strptime(s, "%Y-%m-%d") accepts s.
StrptimeAccepts(s) == s = "2024-01-01"

\* ------------------------------------------------------------------ the program

VARIABLES
    pc,                   \* where the loop of __main__ is
    company_name_input,
    company_ticker_input,
    start_date_input,
    data,                 \* what yf.download gave in this round
    talib,                \* what the TA-Lib calls give in this round
    call,                 \* the locals of the last get_candlestick_patterns call
    patterns,             \* the table returned, or None
    written,              \* the file the round wrote
    last                  \* the message that ended the last round

vars == <<pc, company_name_input, company_ticker_input, start_date_input,
          data, talib, call, patterns, written, last>>

NoCall == Outcome(None, FALSE, "", EmptyFrame, <<>>, <<>>, <<>>)
NoTalib ==
    ("CDLHAMMER" :> [raises |-> FALSE, out |-> <<>>])
    @@ ("CDLENGULFING" :> [raises |-> FALSE, out |-> <<>>])

Init ==
    /\ pc = "company"
    /\ company_name_input = ""
    /\ company_ticker_input = ""
    /\ start_date_input = ""
    /\ data = DownloadRaised
    /\ talib = NoTalib
    /\ call = NoCall
    /\ patterns = None
    /\ written = NoFile
    /\ last = ""

\* Lines 161-163: the company prompt; 'exit' ends the loop.  written and
\* last describe the round that has just ended: a new round starts without.
PromptCompany ==
    /\ pc = "company"
    /\ \E typed \in CompanyInputs :
        /\ company_name_input' = Strip(typed)
        /\ pc' = IF Lower(Strip(typed)) = "exit" THEN "done" ELSE "ticker"
    /\ written' = NoFile
    /\ last' = ""
    /\ UNCHANGED <<company_ticker_input, start_date_input, data, talib, call, patterns>>

\* Lines 165-168: the ticker prompt; an empty ticker starts the loop again.
PromptTicker ==
    /\ pc = "ticker"
    /\ \E typed \in TickerInputs :
        /\ company_ticker_input' = UpperInput(Strip(typed))
        /\ IF UpperInput(Strip(typed)) = ""
           THEN pc' = "company" /\ last' = "empty_ticker"
           ELSE pc' = "date" /\ last' = last
    /\ UNCHANGED <<company_name_input, start_date_input, data, talib, call, patterns, written>>

\* Lines 170-176: the start date prompt; a malformed date becomes the default.
PromptDate ==
    /\ pc = "date"
    /\ \E typed \in DateInputs :
        start_date_input' = IF StrptimeAccepts(Strip(typed)) THEN Strip(typed) ELSE "2024-01-01"
    /\ pc' = "analyse"
    /\ UNCHANGED <<company_name_input, company_ticker_input, data, talib, call, patterns,
                   written, last>>

\* Line 181: patterns = get_candlestick_patterns(...).  An exception that
\* leaves the function ends the process with a traceback.
Analyse ==
    /\ pc = "analyse"
    /\ \E dl \in Downloads :
        \E tl \in (IF BarsToScan(dl) = 0 THEN {NoTalib} ELSE TalibOutcomes(BarsToScan(dl))) :
            \E r \in {GetCandlestickPatterns(dl, tl)} :
                /\ data' = dl
                /\ talib' = tl
                /\ call' = r
                /\ patterns' = r.ret
                /\ pc' = IF r.exc THEN "crashed" ELSE "report"
    /\ UNCHANGED <<company_name_input, company_ticker_input, start_date_input, written, last>>

\* Lines 183-190: the table is printed and saved, or the failure reported;
\* the loop starts again.  The round's locals are dead from here on.
Report ==
    /\ pc = "report"
    /\ IF ~ patterns.isNone
       THEN \E io_ok \in BOOLEAN :
              LET s == SavePatternsToExcel(patterns, company_name_input,
                                           company_ticker_input, io_ok)
              IN  /\ written' = s.file
                  /\ last' = s.msg
                  /\ pc' = IF s.exc THEN "crashed" ELSE "company"
       ELSE /\ written' = written
            /\ last' = call.msg
            /\ pc' = "company"
    /\ data' = DownloadRaised
    /\ talib' = NoTalib
    /\ call' = NoCall
    /\ patterns' = None
    /\ UNCHANGED <<company_name_input, company_ticker_input, start_date_input>>

Next == PromptCompany \/ PromptTicker \/ PromptDate \/ Analyse \/ Report

Spec == Init /\ [][Next]_vars

\* ------------------------------------------------------------------ save_patterns_to_excel called on its own

\* Tables a caller may pass: none, an empty one, and tables of one or two
\* detected patterns, with or without the Value column.
SaveRows ==
    { ("Date" :> Strftime(Calendar[d])) @@ ("Pattern" :> p[1]) @@ ("Type" :> PatternType(p[2]))
      @@ ("Closing Price" :> 150000) @@ ("Recommendation" :> Recommendation(PatternType(p[2])))
      @@ ("Value" :> p[2]) :
        d \in 1..2, p \in {<<"Hammer", 100>>, <<"Engulfing", -100>>} }

SaveTables ==
    {None, DataFrame(EventColumns, <<>>)}
    \cup {DataFrame(EventColumns, rows) : rows \in UNION {[1..n -> SaveRows] : n \in 1..2}}
    \cup {DropColumn(DataFrame(EventColumns, <<r>>), "Value") : r \in SaveRows}

SaveInit ==
    /\ pc = "save"
    /\ company_name_input \in {"Apple Inc.", "AT&T"}
    /\ company_ticker_input \in {"AAPL", "BRK-B"}
    /\ start_date_input = ""
    /\ data = DownloadRaised
    /\ talib = NoTalib
    /\ call = NoCall
    /\ patterns \in SaveTables
    /\ written = NoFile
    /\ last = ""

\* save_patterns_to_excel(patterns, company_name_input, company_ticker_input)
SaveCall ==
    /\ pc = "save"
    /\ \E io_ok \in BOOLEAN :
          LET s == SavePatternsToExcel(patterns, company_name_input, company_ticker_input, io_ok)
          IN  /\ patterns' = s.df
              /\ written' = s.file
              /\ last' = s.msg
              /\ pc' = IF s.exc THEN "crashed" ELSE "saved"
    /\ UNCHANGED <<company_name_input, company_ticker_input, start_date_input, data, talib, call>>

SaveNext == SaveCall

SpecSave == SaveInit /\ [][SaveNext]_vars

\* ------------------------------------------------------------------ the frame as downloaded

\* The label of raw column j, whichever way the provider labels columns.
RawLabel(j) == IF data.multi THEN data.columns[j][1] ELSE data.columns[j]

HasColumn(name) == \E j \in DOMAIN data.columns : RawLabel(j) = name

RawCell(i, name) == data.rows[i][CHOOSE j \in DOMAIN data.columns : RawLabel(j) = name]

\* The bars whose open, high, low and close are all numbers.
ValidBars ==
    {i \in DOMAIN data.rows :
        \A name \in {"Open", "High", "Low", "Close"} :
            HasColumn(name) /\ RawCell(i, name).t = "num"}

\* The call of this round has returned (or, were it to, has let an exception out).
Returned == pc \in {"report", "crashed"}

\* The pattern scan was reached: a download with all five columns and two valid bars.
ScanReached ==
    /\ ~ data.raised
    /\ \A name \in {"Open", "High", "Low", "Close", "Volume"} : HasColumn(name)
    /\ Cardinality(ValidBars) >= 2

\* The place of valid bar i among the valid bars.
Rank(i) == Cardinality({j \in ValidBars : j <= i})

\* The code TA-Lib gave for pattern entry k at valid bar i.
Code(k, i) ==
    LET f == candlestick_patterns[k][1]
    IN  IF f \in DOMAIN talib THEN talib[f].out[Rank(i)] ELSE 0

EngineRaised == \E f \in DOMAIN talib : talib[f].raises

Events == {patterns.rows[n] : n \in DOMAIN patterns.rows}

\* ------------------------------------------------------------------ claims

\* C1: in every table returned, an event's Type is "Bullish" exactly when
\* its Value is positive and "Bearish" exactly when it is negative, and no
\* event has Value zero.
C1_TypeFollowsSign ==
    \A e \in Events :
        /\ e["Type"] = "Bullish" <=> e["Value"] > 0
        /\ e["Type"] = "Bearish" <=> e["Value"] < 0
        /\ e["Value"] # 0

C1_Witness ==
    /\ pc = "report"
    /\ \E e \in Events : e["Value"] > 0 /\ e["Type"] = "Bullish"
    /\ \E e \in Events : e["Value"] < 0 /\ e["Type"] = "Bearish"

\* C2: in every table returned, the Recommendation is decided by the Type:
\* "Consider Buy" for a Bullish event, "Consider Sell" for a Bearish one;
\* neither "Neutral" nor the empty string is ever emitted.
C2_RecommendationFollowsType ==
    \A e \in Events :
        /\ e["Type"] = "Bullish" => e["Recommendation"] = "Consider Buy"
        /\ e["Type"] = "Bearish" => e["Recommendation"] = "Consider Sell"
        /\ e["Recommendation"] \notin {"Neutral", ""}

C2_Witness ==
    /\ pc = "report"
    /\ \E e \in Events : e["Type"] = "Bearish" /\ e["Recommendation"] = "Consider Sell"
    /\ \E e \in Events : e["Type"] = "Bullish" /\ e["Recommendation"] = "Consider Buy"
    /\ Len(patterns.rows) >= 3

\* What the table has to say for valid bar i and pattern entry k: the bar's
\* date, the pattern's name, the bar's close (to two decimals) and its code.
Expected(i, k) ==
    <<Strftime(data.index[i]), candlestick_patterns[k][2],
      Round2(RawCell(i, "Close").v), Code(k, i)>>

Carried(e) == <<e["Date"], e["Pattern"], e["Closing Price"], e["Value"]>>

NonzeroCodes ==
    {<<i, k>> \in ValidBars \X DOMAIN candlestick_patterns : Code(k, i) # 0}

\* C3: on a frame of at least two valid bars whose scan completes, the table
\* returned has one event for each bar and each of the 17 patterns whose
\* code at that bar is nonzero, carrying the bar's date, the pattern's name,
\* the bar's closing price and the code, and has no other event.
C3_OneEventPerNonzeroCode ==
    (pc = "report" /\ ScanReached /\ ~ EngineRaised) =>
        /\ Len(candlestick_patterns) = 17
        /\ {Carried(e) : e \in Events} = {Expected(ik[1], ik[2]) : ik \in NonzeroCodes}
        /\ Len(patterns.rows) = Cardinality(NonzeroCodes)
        /\ patterns.isNone <=> NonzeroCodes = {}

C3_Witness ==
    /\ pc = "report" /\ ScanReached /\ ~ EngineRaised
    /\ Cardinality(NonzeroCodes) >= 3
    /\ Cardinality(ValidBars) < Len(data.rows)
    /\ \E ik \in NonzeroCodes : Code(ik[2], ik[1]) < 0
    /\ ~ patterns.isNone

SameKey(a, b) == a["Date"] = b["Date"] /\ a["Pattern"] = b["Pattern"]

\* The positions of the sorted rows that hold the first row of their (Date, Pattern).
FirstPositions ==
    {i \in DOMAIN call.sorted : \A j \in 1..(i - 1) : ~ SameKey(call.sorted[j], call.sorted[i])}

C5_TooFewBars ==
    (Returned /\ ~ data.raised /\ (data.rows = <<>> \/ Cardinality(ValidBars) < 2)) =>
        /\ pc = "report"
        /\ patterns.isNone
        /\ call.calls = <<>>
        /\ call.detected = <<>>
        /\ ~ call.exc

\* Exactly one valid bar is left of a longer frame.
C5_Witness ==
    /\ pc = "report" /\ ~ data.raised
    /\ Len(data.rows) >= 2
    /\ Cardinality(ValidBars) = 1
    /\ call.msg = "not_enough"
    /\ patterns.isNone

\* The download with every volume cell replaced by v.
WithVolume(v) ==
    [data EXCEPT !.rows =
        [i \in DOMAIN data.rows |->
            [j \in DOMAIN data.columns |->
                IF RawLabel(j) = "Volume" THEN v ELSE data.rows[i][j]]]]

C7_LoopContinues ==
    [][ /\ pc' # "crashed"
        /\ pc = "report" => pc' = "company"
        /\ (pc = "ticker" /\ company_ticker_input' = "") => pc' = "company"
        /\ pc = "analyse" => pc' = "report"
        /\ pc' = "done" => (pc = "company" /\ Lower(company_name_input') = "exit")
      ]_vars

\* A round whose spreadsheet could not be written is over and the prompt is back.
C7_Witness ==
    /\ pc = "company"
    /\ last \in {"save_error", "error", "no_data", "missing_columns", "not_enough",
                 "no_patterns", "empty_ticker"}
    /\ last = "save_error"

\* C8: a failure of the download or of a pattern function is caught: the
\* function returns the absent result, lets no exception out and returns
\* nothing of what it had detected.
C8_FailuresCaught ==
    (Returned /\ (data.raised \/ (ScanReached /\ EngineRaised))) =>
        /\ pc = "report"
        /\ ~ call.exc
        /\ patterns.isNone
        /\ call.msg = "error"

\* A pattern function raised after an earlier one had found a pattern.
C8_Witness ==
    /\ pc = "report" /\ ScanReached /\ EngineRaised
    /\ call.detected # <<>>
    /\ patterns.isNone

\* The labels of cols other than "Value", in order.
NotValue(c) == c # "Value"

\* C9: given a table with rows, the sheet written has "Company" as its first
\* column, then the table's columns without "Value", each row carrying the
\* company name and the table's values, and the caller's table is unchanged;
\* given no table or an empty one, no file is written.
C9_SheetAndCallerTable ==
    [][ pc = "save" =>
          /\ patterns' = patterns
          /\ (patterns.isNone \/ patterns.rows = <<>>) => ~ written'.written
          /\ written'.written =>
                /\ ~ patterns.isNone /\ patterns.rows # <<>>
                /\ Head(written'.sheet.columns) = "Company"
                /\ Tail(written'.sheet.columns) = SelectSeq(patterns.columns, NotValue)
                /\ Len(written'.sheet.rows) = Len(patterns.rows)
                /\ \A i \in DOMAIN patterns.rows :
                      /\ DOMAIN written'.sheet.rows[i] = Range(written'.sheet.columns)
                      /\ written'.sheet.rows[i]["Company"] = company_name_input
                      /\ \A c \in Range(patterns.columns) \ {"Value"} :
                            written'.sheet.rows[i][c] = patterns.rows[i][c]
          /\ (~ patterns.isNone /\ patterns.rows # <<>> /\ last' = "saved") => written'.written
      ]_vars

\* A sheet was written from a table that has a Value column, which it still has.
C9_Witness ==
    /\ pc = "saved"
    /\ written.written
    /\ Len(written.sheet.rows) = 2
    /\ "Value" \in Range(patterns.columns)
    /\ "Company" \notin Range(patterns.columns)
    /\ "Value" \notin Range(written.sheet.columns)

\* The bars of 2024-03-05 that close at 150.005 with CDLHAMMER = 100.
HammerBars ==
    {i \in ValidBars :
        /\ data.index[i] = [year |-> 2024, month |-> 3, day |-> 5]
        /\ RawCell(i, "Close").v = 150005
        /\ Code(2, i) = 100}

Date20240305 == <<"2", "0", "2", "4", "-", "0", "3", "-", "0", "5">>

\* The Hammer events of 2024-03-05 in the table returned.
HammerEvents == {n \in DOMAIN patterns.rows :
                    /\ patterns.rows[n]["Date"] = Date20240305
                    /\ patterns.rows[n]["Pattern"] = "Hammer"}

\* Every Closing Price is a whole number of hundredths within half a
\* hundredth of the close of a valid bar of the event's date.
ClosingPricesRounded ==
    \A e \in Events :
        \E i \in ValidBars :
            /\ e["Date"] = Strftime(data.index[i])
            /\ e["Closing Price"] % 10 = 0
            /\ e["Closing Price"] - RawCell(i, "Close").v \in -5..5

\* The Hammer bar of the example gives exactly one event, priced at price.
HammerExample(price) ==
    HammerBars # {} =>
        /\ Cardinality(HammerEvents) = 1
        /\ \A n \in HammerEvents :
              /\ patterns.rows[n]["Type"] = "Bullish"
              /\ patterns.rows[n]["Closing Price"] = price
              /\ patterns.rows[n]["Recommendation"] = "Consider Buy"
              /\ patterns.rows[n]["Value"] = 100

\* C10 as stated: every Closing Price is the close rounded to two decimals,
\* and the bar with CDLHAMMER = 100 on 2024-03-05 closing at 150.005 gives
\* one Hammer event, Bullish, "Consider Buy", with Closing Price 150.01.
C10_AsStated ==
    (pc = "report" /\ ScanReached /\ ~ EngineRaised) =>
        /\ ClosingPricesRounded
        /\ HammerExample(150010)

\* C10 amended: the same, with Closing Price 150.0: the stored value of
\* 150.005 lies below the half and round() does not round it up.
C10_RoundedClose ==
    (pc = "report" /\ ScanReached /\ ~ EngineRaised) =>
        /\ ClosingPricesRounded
        /\ HammerExample(150000)

C10_Witness ==
    /\ pc = "report" /\ ScanReached /\ ~ EngineRaised
    /\ HammerBars # {}
    /\ \E n \in HammerEvents : patterns.rows[n]["Closing Price"] = 150000
    /\ \E e \in Events : e["Closing Price"] = 100000

====
